---- MODULE Spec2Model ----
(***************************************************************************)
(* Model of news_update.py: the deduplicated PubMed fetch pipeline         *)
(* (fetch_entrez_articles_for_news_update), its ledger file                *)
(* processed_ids.txt, the two Entrez adapters and the main loop.           *)
(*                                                                         *)
(* Text is modelled as sequences of one-character strings, so that         *)
(* str.strip, "\n".join and readlines are computed, not assumed.           *)
(* The upstream service is the environment: every ESearch and EFetch       *)
(* response is a nondeterministic choice from a bounded set.               *)
(*                                                                         *)
(* Specifications:                                                         *)
(*   Spec            calls of the fetch procedure, one after another       *)
(*   SpecTwice       a call and the same call made again                   *)
(*   SpecMain        runs of main                                          *)
(*   SpecCrash       calls with the save in two steps, in a process that   *)
(*                   can be killed                                         *)
(*   SpecConcurrent  two calls at once on one ledger file                  *)
(*   SpecRepeat      calls repeated against an unchanging upstream         *)
(*   SpecParse       the parsing loop on one PubmedArticle element         *)
(***************************************************************************)
EXTENDS Integers, Sequences, FiniteSets, TLC

VARIABLES
    ledger_file,                \* contents of processed_ids.txt, or NoFile
    fetch_pc,                   \* position in fetch_entrez_articles_for_news_update
    query_term,                 \* its argument query_term
    articles_per_query,         \* its argument articles_per_query
    processed_ids,              \* its local processed_ids
    all_found_pmids,            \* its local all_found_pmids
    new_pmids_to_fetch_details, \* its local new_pmids_to_fetch_details
    formatted_articles,         \* its local formatted_articles (the return value)
    esearch_request,            \* last request sent to esearch.fcgi, or NoRequest
    esearch_response,           \* the response to it
    efetch_request,             \* id list sent to efetch.fcgi in this call, or NoRequest
    efetch_response,            \* the response to it
    ledger_at_call,             \* ledger_file as it was when the current call began
    first_run,                  \* the preceding call, when the current call repeats it
    returned_ids,               \* identifiers of records returned by completed earlier calls
    rejected_ids,               \* identifiers asked for and rejected by the gate in earlier calls
    main_pc,                    \* position in main
    query_idx,                  \* main's loop index into QUERY (1-based)
    articles_collection,        \* main's articles_collection
    enrich_idx,                 \* main's index i into articles_collection (1-based)
    news_file,                  \* lines appended to news.jsonl
    audios,                     \* identifiers with an mp3 file under audios/
    pubmed_article,             \* a PubmedArticle element given to the parsing loop
    parsed_article,             \* the article_info the loop built from it, or NoInfo
    peer,                       \* a second, concurrent call of the fetch procedure
    upstream                    \* what an unchanging upstream serves, or NoUpstream

fetch_vars == <<fetch_pc, query_term, articles_per_query, processed_ids,
                all_found_pmids, new_pmids_to_fetch_details, formatted_articles,
                esearch_request, esearch_response, efetch_request, efetch_response>>
hist_vars == <<ledger_at_call, first_run, returned_ids, rejected_ids>>
main_vars == <<main_pc, query_idx, articles_collection, enrich_idx, news_file, audios>>
parse_vars == <<pubmed_article, parsed_article>>
aux_vars == <<parse_vars, peer, upstream>>
vars == <<ledger_file, fetch_vars, hist_vars, main_vars, aux_vars>>

----------------------------------------------------------------------------
(* Bounds of the model *)

MaxCands == 2       \* longest idlist an ESearch response holds
MaxArticles == 2    \* most PubmedArticle elements in an EFetch document
MaxN == 2           \* largest articles_per_query a caller passes
MaxAuthors == 2     \* most Author elements in an AuthorList
MaxHistory == 2     \* most PubMedPubDate elements in a History

----------------------------------------------------------------------------
(* Text helpers *)

Rep(c, n) == [i \in 1..n |-> c]

Range(s) == {s[i] : i \in 1..Len(s)}

Whitespace == {" ", "\n"}

RECURSIVE lstrip(_)
lstrip(s) == IF s = <<>> \/ Head(s) \notin Whitespace THEN s ELSE lstrip(Tail(s))

RECURSIVE rstrip(_)
rstrip(s) ==
    IF s = <<>> \/ s[Len(s)] \notin Whitespace THEN s
    ELSE rstrip(SubSeq(s, 1, Len(s) - 1))

\* str.strip()
strip(s) == rstrip(lstrip(s))

\* sep.join(parts)
RECURSIVE join(_, _)
join(sep, parts) ==
    IF parts = <<>> THEN <<>>
    ELSE IF Len(parts) = 1 THEN parts[1]
    ELSE parts[1] \o sep \o join(sep, Tail(parts))

\* f.readlines(): the lines of the text, each with its terminating newline
RECURSIVE readlines(_)
readlines(text) ==
    IF text = <<>> THEN <<>>
    ELSE LET nl == {i \in 1..Len(text) : text[i] = "\n"} IN
         IF nl = {} THEN <<text>>
         ELSE LET k == CHOOSE i \in nl : \A j \in nl : i <= j IN
              <<SubSeq(text, 1, k)>> \o readlines(SubSeq(text, k + 1, Len(text)))

\* the orders in which a set can be iterated
Orderings(S) ==
    {o \in [1..Cardinality(S) -> S] : \A i, j \in 1..Cardinality(S) : o[i] = o[j] => i = j}

----------------------------------------------------------------------------
(* Program constants *)

GET_LATEST_PUBMED_FLAG == "__GET_LATEST_PUBMED_ARTICLES__"

QUERY == <<"artificial intelligence", "machine learning", "deep learning",
           "cancer treatment", "diabetes management", GET_LATEST_PUBMED_FLAG>>

\* the three-character sentinel of line 145, one token per character
NO_ABSTRACT == <<"wu", "zhai", "yao">>

\* minimum trimmed abstract length accepted by the validation gate (line 271)
MIN_ABSTRACT_LEN == 50

\* over-fetch margin added to articles_per_query (line 240)
OVERFETCH_MARGIN == 15

\* the identifiers the upstream serves, as text
PMIDS == {<<"1">>, <<"2">>}

----------------------------------------------------------------------------
(* The ledger file: processed_ids.txt *)

NoFile == [exists |-> FALSE, text |-> <<>>]

File(text) == [exists |-> TRUE, text |-> text]

\* open(path, "a"): the file is created if need be and its content kept
open_a(file) == File(file.text)

\* line 57: open(path, "w") creates the file or truncates it
open_w(file) == File(<<>>)

\* line 58: f.write(text) at the end of the open file
write(file, text) == File(file.text \o text)

\* load_processed_ids without the strip of line 54
load_processed_ids_nostrip(file) ==
    IF ~file.exists THEN {}
    ELSE Range(readlines(file.text))

load_processed_ids(file) ==
    IF ~file.exists THEN {}
    ELSE {strip(line) : line \in Range(readlines(file.text))}

\* save_processed_ids joining the identifiers with no separator
save_processed_ids_nosep(ids) == {File(join(<<>>, o)) : o \in Orderings(ids)}

\* the texts f.write("\n".join(ids)) can leave: ids is a set, iterated in any order
save_processed_ids(ids) == {File(join(<<"\n">>, o)) : o \in Orderings(ids)}

----------------------------------------------------------------------------
(* The upstream service: what esearch.fcgi and efetch.fcgi may answer *)

SeqsUpTo(S, n) == UNION {[1..k -> S] : k \in 0..n}

\* an HTTP/network failure, an undecodable body, or a decoded JSON payload:
\*   "array"            the payload is not an object, e.g. []
\*   "no_esearchresult" an object without the key esearchresult, e.g. {}
\*   "idlist"           {"esearchresult": {"idlist": [...]}}
EsearchResponses ==
    {[kind |-> k, shape |-> "none", idlist |-> <<>>] :
        k \in {"RequestException", "JSONDecodeError"}}
    \cup {[kind |-> "json", shape |-> sh, idlist |-> <<>>] :
        sh \in {"array", "no_esearchresult"}}
    \cup {[kind |-> "json", shape |-> "idlist", idlist |-> l] :
        l \in SeqsUpTo(PMIDS, MaxCands)}

\* the AbstractText children of one PubmedArticle: none; one text of 47
\* letters under a Label that starts with a blank (50 characters once
\* labelled, 49 trimmed); two parts, 24 letters padded with whitespace and 22
\* letters labelled "L" (50 characters once stripped, labelled and joined)
AbstractTextChoices ==
    { <<>>,
      <<[Label |-> <<" ">>, text |-> Rep("a", MIN_ABSTRACT_LEN - 3)]>>,
      <<[Label |-> <<>>, text |-> <<" ">> \o Rep("a", 24) \o <<"\n">>],
        [Label |-> <<"L">>, text |-> Rep("a", MIN_ABSTRACT_LEN - 28)]>> }

LongAbstractText == <<[Label |-> <<>>, text |-> Rep("a", MIN_ABSTRACT_LEN)]>>

\* the PubmedArticle elements: one without a PMID child (and a long abstract),
\* and one per identifier and abstract
PubmedArticles ==
    {[PMID |-> [present |-> FALSE, text |-> <<>>], AbstractText |-> LongAbstractText]}
    \cup {[PMID |-> [present |-> TRUE, text |-> id], AbstractText |-> a] :
            id \in PMIDS, a \in AbstractTextChoices}

\* an HTTP/network failure, a body that is not XML, or a document holding any
\* PubmedArticle elements, whatever was asked for
EfetchResponses ==
    {[kind |-> k, articles |-> <<>>] : k \in {"RequestException", "ParseError"}}
    \cup {[kind |-> "xml", articles |-> a] : a \in SeqsUpTo(PubmedArticles, MaxArticles)}

NoRequest == [sent |-> FALSE, term |-> "", retmax |-> 0, ids |-> <<>>]
NoResponse == [kind |-> "none", shape |-> "none", idlist |-> <<>>, articles |-> <<>>]

----------------------------------------------------------------------------
(* search_pubmed *)

\* search_term without the replacement of lines 65-67
search_term_verbatim(query) == query

search_term(query) == IF query = GET_LATEST_PUBMED_FLAG THEN "pubmed[sb]" ELSE query

\* the GET sent to esearch.fcgi
search_request(query, retmax) ==
    [sent |-> TRUE, term |-> search_term(query), retmax |-> retmax, ids |-> <<>>]

\* search_pubmed without the except clause for RequestException
search_pubmed_uncaught(query, retmax, response) ==
    IF response.kind = "RequestException" THEN [raised |-> TRUE, pmids |-> <<>>]
    ELSE IF response.kind = "JSONDecodeError" THEN [raised |-> FALSE, pmids |-> <<>>]
    ELSE IF response.shape = "array" THEN [raised |-> TRUE, pmids |-> <<>>]
    ELSE IF response.shape = "no_esearchresult" THEN [raised |-> FALSE, pmids |-> <<>>]
    ELSE [raised |-> FALSE, pmids |-> response.idlist]

\* raised is TRUE when an exception leaves the function: data.get fails with
\* AttributeError on a payload that is not an object, and only
\* RequestException and JSONDecodeError are caught
search_pubmed(query, retmax, response) ==
    IF response.kind \in {"RequestException", "JSONDecodeError"}
    THEN [raised |-> FALSE, pmids |-> <<>>]
    ELSE IF response.shape = "array" THEN [raised |-> TRUE, pmids |-> <<>>]
    ELSE IF response.shape = "no_esearchresult" THEN [raised |-> FALSE, pmids |-> <<>>]
    ELSE [raised |-> FALSE, pmids |-> response.idlist]

----------------------------------------------------------------------------
(* fetch_pubmed_articles_details *)

\* the abstract_parts loop: blank parts are dropped, labelled parts prefixed
RECURSIVE abstract_parts(_)
abstract_parts(nodes) ==
    IF nodes = <<>> THEN <<>>
    ELSE LET text_content == strip(Head(nodes).text)
             rest == abstract_parts(Tail(nodes))
         IN  IF text_content = <<>> THEN rest
             ELSE IF Head(nodes).Label # <<>>
                  THEN <<Head(nodes).Label \o <<":", " ">> \o text_content>> \o rest
                  ELSE <<text_content>> \o rest

abstract_of(nodes) ==
    IF abstract_parts(nodes) # <<>> THEN join(<<"\n">>, abstract_parts(nodes))
    ELSE NO_ABSTRACT

\* article_info: has_pmid is FALSE when the key "pmid" was never set
article_info(el) ==
    [has_pmid |-> el.PMID.present,
     pmid |-> el.PMID.text,
     abstract |-> abstract_of(el.AbstractText)]

fetch_pubmed_articles_details(pmids, response) ==
    IF pmids = <<>> THEN <<>>
    ELSE IF response.kind \in {"RequestException", "ParseError"} THEN <<>>
    ELSE [i \in 1..Len(response.articles) |-> article_info(response.articles[i])]

----------------------------------------------------------------------------
(* fetch_pubmed_articles_details: authors and publication date *)

\* the five-character sentinels of lines 166 and 169, one token per character
NO_AUTHORS == <<"wu", "zuo", "zhe", "zi", "xun">>
NO_PUB_DATE == <<"wu", "chu", "ban", "ri", "qi">>

\* len("YYYY-MM-DD"), the length below which line 193 looks for another date
FULL_DATE_LEN == 10

DIGITS == <<"0", "1", "2", "3", "4", "5", "6", "7", "8", "9">>

\* str.isdigit()
isdigit(s) == s # <<>> /\ \A i \in 1..Len(s) : s[i] \in Range(DIGITS)

\* str.zfill(width) of a text without a sign
zfill(s, width) == IF Len(s) >= width THEN s ELSE Rep("0", width - Len(s)) \o s

\* str(n) for a natural number
RECURSIVE str(_)
str(n) == IF n < 10 THEN <<DIGITS[n + 1]>> ELSE str(n \div 10) \o <<DIGITS[(n % 10) + 1]>>

UPPER == <<"A", "B", "C", "D", "E", "F", "G", "H", "I", "J", "K", "L", "M",
           "N", "O", "P", "Q", "R", "S", "T", "U", "V", "W", "X", "Y", "Z">>
LOWER == <<"a", "b", "c", "d", "e", "f", "g", "h", "i", "j", "k", "l", "m",
           "n", "o", "p", "q", "r", "s", "t", "u", "v", "w", "x", "y", "z">>

\* str.lower()
lower(s) ==
    [i \in 1..Len(s) |->
        IF \E k \in 1..Len(UPPER) : UPPER[k] = s[i]
        THEN LOWER[CHOOSE k \in 1..Len(UPPER) : UPPER[k] = s[i]]
        ELSE s[i]]

\* the abbreviated month names %b matches, whatever their case
MONTH_ABBR == << <<"j", "a", "n">>, <<"f", "e", "b">>, <<"m", "a", "r">>,
                 <<"a", "p", "r">>, <<"m", "a", "y">>, <<"j", "u", "n">>,
                 <<"j", "u", "l">>, <<"a", "u", "g">>, <<"s", "e", "p">>,
                 <<"o", "c", "t">>, <<"n", "o", "v">>, <<"d", "e", "c">> >>

\* datetime.strptime(month, "%b").month, or 0 where it raises ValueError
strptime_b(month) ==
    IF \E m \in 1..Len(MONTH_ABBR) : MONTH_ABBR[m] = lower(month)
    THEN CHOOSE m \in 1..Len(MONTH_ABBR) : MONTH_ABBR[m] = lower(month)
    ELSE 0

\* str.replace(old, "")
RECURSIVE remove(_, _)
remove(s, old) ==
    IF Len(s) < Len(old) THEN s
    ELSE IF SubSeq(s, 1, Len(old)) = old
         THEN remove(SubSeq(s, Len(old) + 1, Len(s)), old)
         ELSE <<Head(s)>> \o remove(Tail(s), old)

\* lines 155-162 with the name appended as built, not stripped
author_name_nostrip(author_node) ==
    (IF author_node.LastName # <<>> THEN author_node.LastName ELSE <<>>)
    \o (IF author_node.ForeName # <<>> THEN <<" ">> \o author_node.ForeName
        ELSE IF author_node.Initials # <<>> THEN <<" ">> \o author_node.Initials
        ELSE <<>>)

\* lines 155-165: the display name of one Author element (a child that is
\* missing and a child without text are both the empty text)
author_name(author_node) ==
    strip((IF author_node.LastName # <<>> THEN author_node.LastName ELSE <<>>)
          \o (IF author_node.ForeName # <<>> THEN <<" ">> \o author_node.ForeName
              ELSE IF author_node.Initials # <<>> THEN <<" ">> \o author_node.Initials
              ELSE <<>>))

\* lines 148-165: the names appended, in document order
RECURSIVE authors_list(_)
authors_list(author_nodes) ==
    IF author_nodes = <<>> THEN <<>>
    ELSE IF author_name(Head(author_nodes)) # <<>>
         THEN <<author_name(Head(author_nodes))>> \o authors_list(Tail(author_nodes))
         ELSE authors_list(Tail(author_nodes))

\* line 166
authors_of(el) ==
    IF authors_list(el.AuthorList) # <<>> THEN authors_list(el.AuthorList)
    ELSE <<NO_AUTHORS>>

\* lines 178-187: the month as it is appended to the year
month_text(month) ==
    IF isdigit(month) THEN zfill(month, 2)
    ELSE IF strptime_b(month) # 0 THEN zfill(str(strptime_b(month)), 2)
    ELSE month

\* lines 169-189: the date read from Journal/JournalIssue/PubDate
journal_pub_date(node) ==
    IF ~node.present \/ node.Year = <<>> THEN NO_PUB_DATE
    ELSE IF node.Month = <<>> THEN node.Year
    ELSE IF isdigit(node.Day)
         THEN node.Year \o <<"-">> \o month_text(node.Month)
                        \o <<"-">> \o zfill(node.Day, 2)
         ELSE node.Year \o <<"-">> \o month_text(node.Month)

\* line 193: is the History looked at
fallback_needed(pub_date_str) ==
    pub_date_str = NO_PUB_DATE \/ Len(pub_date_str) < FULL_DATE_LEN

\* lines 194-198: the PubMedPubDate elements the date is taken from
pubmed_pubdate_nodes(history) ==
    IF SelectSeq(history, LAMBDA n : n.PubStatus = "pubmed") # <<>>
    THEN SelectSeq(history, LAMBDA n : n.PubStatus = "pubmed")
    ELSE IF SelectSeq(history, LAMBDA n : n.PubStatus = "entrez") # <<>>
         THEN SelectSeq(history, LAMBDA n : n.PubStatus = "entrez")
         ELSE history

\* lines 203-212: the date read from one PubMedPubDate element
current_date_str(node) ==
    IF ~isdigit(node.Year) THEN NO_PUB_DATE
    ELSE IF ~isdigit(node.Month) THEN node.Year
    ELSE IF ~isdigit(node.Day) THEN node.Year \o <<"-">> \o zfill(node.Month, 2)
    ELSE node.Year \o <<"-">> \o zfill(node.Month, 2) \o <<"-">> \o zfill(node.Day, 2)

\* lines 214-216: the History date replaces the one found so far
more_complete(current, pub_date_str) ==
    current # NO_PUB_DATE /\ Len(current) > Len(remove(pub_date_str, NO_PUB_DATE))

\* lines 168-218
published_date(el) ==
    LET pub_date_str == journal_pub_date(el.PubDate)
        nodes == pubmed_pubdate_nodes(el.History)
    IN  IF ~fallback_needed(pub_date_str) THEN pub_date_str
        ELSE IF nodes = <<>> THEN pub_date_str
        ELSE IF more_complete(current_date_str(nodes[1]), pub_date_str)
             THEN current_date_str(nodes[1])
             ELSE pub_date_str

NoInfo == [parsed |-> FALSE, authors |-> <<>>, published_date |-> <<>>]

\* the authors and published_date entries of article_info
authors_and_date(el) ==
    [parsed |-> TRUE, authors |-> authors_of(el), published_date |-> published_date(el)]

\* the Author elements: each of LastName, ForeName and Initials with a text
\* or without
AuthorNodes ==
    {[LastName |-> l, ForeName |-> f, Initials |-> i] :
        l \in {<<>>, <<"L", "e", "e">>},
        f \in {<<>>, <<"J", "o">>},
        i \in {<<>>, <<"J">>}}

\* the Month texts of a PubDate: none, a number, an abbreviation, and two
\* texts that are neither ("2023-Fall" has 9 characters, "2023-Spring" 11)
MonthTexts ==
    {<<>>, <<"5">>, <<"M", "a", "y">>, <<"F", "a", "l", "l">>,
     <<"S", "p", "r", "i", "n", "g">>}

NoPubDate == [present |-> FALSE, Year |-> <<>>, Month |-> <<>>, Day |-> <<>>]

\* Journal/JournalIssue/PubDate: no element, or its Year, Month and Day
PubDates ==
    {NoPubDate}
    \cup {[present |-> TRUE, Year |-> y, Month |-> m, Day |-> d] :
            y \in {<<>>, <<"2", "0", "2", "3">>},
            m \in MonthTexts,
            d \in {<<>>, <<"1", "4">>}}

\* the PubMedPubDate elements: 2023-5-14, 2023-5, 2023, no Year, and
\* 2023-May-14, under each of three PubStatus values
PubMedPubDates ==
    {[PubStatus |-> st, Year |-> ymd[1], Month |-> ymd[2], Day |-> ymd[3]] :
        st \in {"pubmed", "entrez", "received"},
        ymd \in { << <<"2", "0", "2", "3">>, <<"5">>, <<"1", "4">> >>,
                  << <<"2", "0", "2", "3">>, <<"5">>, <<>> >>,
                  << <<"2", "0", "2", "3">>, <<>>, <<>> >>,
                  << <<>>, <<>>, <<>> >>,
                  << <<"2", "0", "2", "3">>, <<"M", "a", "y">>, <<"1", "4">> >> }}

NoArticle == [AuthorList |-> <<>>, PubDate |-> NoPubDate, History |-> <<>>]

\* the PubmedArticle elements given to the parsing loop: any authors with no
\* date, or any dates with no authors
ParsedElements ==
    {[AuthorList |-> a, PubDate |-> NoPubDate, History |-> <<>>] :
        a \in SeqsUpTo(AuthorNodes, MaxAuthors)}
    \cup {[AuthorList |-> <<>>, PubDate |-> p, History |-> h] :
            p \in PubDates, h \in SeqsUpTo(PubMedPubDates, MaxHistory)}

\* the second call before it begins: its position, arguments and locals
NoPeer ==
    [pc |-> "idle", query_term |-> "", articles_per_query |-> 1,
     processed_ids |-> {}, loaded |-> {}, all_found_pmids |-> <<>>,
     new_pmids_to_fetch_details |-> <<>>, formatted_articles |-> <<>>,
     asked |-> FALSE]
\* no fixed upstream: every response is chosen anew
NoUpstream ==
    [fixed |-> FALSE, query_term |-> "", idlist |-> <<>>,
     abstracts |-> [id \in PMIDS |-> <<>>]]

\* an upstream that does not change: the query term asked, the idlist
\* esearch.fcgi answers it with, and the AbstractText of each article
Upstreams ==
    {[fixed |-> TRUE, query_term |-> q, idlist |-> l, abstracts |-> a] :
        q \in {QUERY[5], GET_LATEST_PUBMED_FLAG},
        l \in SeqsUpTo(PMIDS, MaxCands),
        a \in [PMIDS -> AbstractTextChoices]}

----------------------------------------------------------------------------
(* fetch_entrez_articles_for_news_update: its loops as operators *)

pmids_to_search(n) == n + OVERFETCH_MARGIN

\* the loop of lines 247-252 without the break of lines 250-251
RECURSIVE filter_new_pmids_nobreak(_, _, _, _)
filter_new_pmids_nobreak(pmids, processed, n, acc) ==
    IF pmids = <<>> THEN acc
    ELSE IF Head(pmids) \notin processed
         THEN filter_new_pmids_nobreak(Tail(pmids), processed, n, Append(acc, Head(pmids)))
         ELSE filter_new_pmids_nobreak(Tail(pmids), processed, n, acc)

\* lines 247-252: the first n candidates not in the ledger, in search order
RECURSIVE filter_new_pmids(_, _, _, _)
filter_new_pmids(pmids, processed, n, acc) ==
    IF pmids = <<>> THEN acc
    ELSE IF Head(pmids) \notin processed
         THEN IF Len(acc) + 1 >= n THEN Append(acc, Head(pmids))
              ELSE filter_new_pmids(Tail(pmids), processed, n, Append(acc, Head(pmids)))
         ELSE filter_new_pmids(Tail(pmids), processed, n, acc)

\* line 265: raw_article.get("pmid") is None or empty
no_pmid(raw_article) == ~raw_article.has_pmid \/ raw_article.pmid = <<>>

\* the gate of line 271 measuring the abstract untrimmed
summary_too_short_nostrip(summary) ==
    summary = <<>> \/ Len(summary) < MIN_ABSTRACT_LEN

\* line 271: the validation gate
summary_too_short(summary) ==
    summary = <<>> \/ Len(strip(summary)) < MIN_ABSTRACT_LEN

\* lines 279-281
article_query_source(query) ==
    IF query = GET_LATEST_PUBMED_FLAG THEN "Latest PubMed Articles" ELSE query

\* lines 283-294 (the fields that do not depend on the identifier, the query
\* or the abstract are left out)
article_data(query, raw_article) ==
    [query |-> article_query_source(query),
     id |-> raw_article.pmid,
     summary |-> raw_article.abstract]

\* lines 262-296: the records built from the details, in order
RECURSIVE format_articles(_, _)
format_articles(query, raw_articles_details) ==
    IF raw_articles_details = <<>> THEN <<>>
    ELSE LET raw_article == Head(raw_articles_details)
             rest == format_articles(query, Tail(raw_articles_details))
         IN  IF no_pmid(raw_article) THEN rest
             ELSE IF summary_too_short(raw_article.abstract) THEN rest
             ELSE <<article_data(query, raw_article)>> \o rest

\* line 296 run for the first record only
ids_added_first(formatted) == IF formatted = <<>> THEN {} ELSE {formatted[1].id}

\* line 296: the identifiers added to processed_ids by the loop
ids_added(formatted) == {formatted[i].id : i \in 1..Len(formatted)}

\* processed_ids at line 298 had the whole batch been added to it
processed_ids_after_batch(processed, pmids, formatted) == processed \cup Range(pmids)

\* processed_ids at line 298: the loaded set and the adds of line 296
processed_ids_after(processed, pmids, formatted) == processed \cup ids_added(formatted)

\* the identifiers whose detail the gate of line 271 skipped
ids_skipped(raw_articles_details) ==
    {raw_articles_details[i].pmid : i \in
        {j \in 1..Len(raw_articles_details) :
            /\ ~no_pmid(raw_articles_details[j])
            /\ summary_too_short(raw_articles_details[j].abstract)}}

----------------------------------------------------------------------------
(* State machine of one call of fetch_entrez_articles_for_news_update *)

NoRun == [repeat |-> FALSE, esearch_response |-> NoResponse,
          efetch_request |-> NoRequest, all_returned |-> FALSE,
          detail_failed |-> FALSE]

\* the details the current call parsed (empty when efetch.fcgi was not asked)
raw_articles_details ==
    IF efetch_request.sent
    THEN fetch_pubmed_articles_details(efetch_request.ids, efetch_response)
    ELSE <<>>

InitLocals ==
    /\ fetch_pc = "idle"
    /\ query_term = ""
    /\ articles_per_query = 1
    /\ processed_ids = {}
    /\ all_found_pmids = <<>>
    /\ new_pmids_to_fetch_details = <<>>
    /\ formatted_articles = <<>>
    /\ esearch_request = NoRequest
    /\ esearch_response = NoResponse
    /\ efetch_request = NoRequest
    /\ efetch_response = NoResponse
    /\ ledger_at_call = NoFile
    /\ first_run = NoRun
    /\ returned_ids = {}
    /\ rejected_ids = {}
    /\ main_pc = "idle"
    /\ query_idx = 1
    /\ articles_collection = <<>>
    /\ enrich_idx = 1
    /\ news_file = <<>>
    /\ audios = {}

InitProgram ==
    /\ ledger_file = NoFile
    /\ InitLocals

Init ==
    /\ InitProgram
    /\ pubmed_article = NoArticle
    /\ parsed_article = NoInfo
    /\ peer = NoPeer
    /\ upstream = NoUpstream

\* lines 232-240: entry and load_processed_ids
Begin(q, n) ==
    /\ fetch_pc \in {"idle", "returned", "raised", "killed"}
    /\ query_term' = q
    /\ articles_per_query' = n
    /\ processed_ids' = load_processed_ids(ledger_file)
    /\ all_found_pmids' = <<>>
    /\ new_pmids_to_fetch_details' = <<>>
    /\ formatted_articles' = <<>>
    /\ esearch_request' = NoRequest
    /\ esearch_response' = NoResponse
    /\ efetch_request' = NoRequest
    /\ efetch_response' = NoResponse
    /\ fetch_pc' = "search"
    /\ ledger_at_call' = ledger_file
    /\ UNCHANGED <<ledger_file, aux_vars>>

\* lines 242-258: search_pubmed, the empty-list return, the filter loop and
\* the nothing-new return
FetchSearch(response) ==
    /\ fetch_pc = "search"
    /\ first_run.repeat => response = first_run.esearch_response
    /\ LET found == search_pubmed(query_term, pmids_to_search(articles_per_query), response)
           batch == filter_new_pmids(found.pmids, processed_ids, articles_per_query, <<>>)
       IN  /\ esearch_request' = search_request(query_term, pmids_to_search(articles_per_query))
           /\ esearch_response' = response
           /\ all_found_pmids' = found.pmids
           /\ new_pmids_to_fetch_details' = IF found.raised THEN <<>> ELSE batch
           /\ fetch_pc' = IF found.raised THEN "raised"
                          ELSE IF found.pmids = <<>> \/ batch = <<>> THEN "returned"
                          ELSE "detail"
    /\ UNCHANGED <<ledger_file, query_term, articles_per_query, processed_ids,
                   formatted_articles, efetch_request, efetch_response, hist_vars,
                   main_vars, aux_vars>>

\* lines 260-300: fetch_pubmed_articles_details, the validation loop,
\* save_processed_ids and the return
FetchDetail(response) ==
    /\ fetch_pc = "detail"
    /\ LET details == fetch_pubmed_articles_details(new_pmids_to_fetch_details, response)
           formatted == format_articles(query_term, details)
       IN  /\ efetch_request' = [sent |-> TRUE, term |-> "", retmax |-> 0,
                                 ids |-> new_pmids_to_fetch_details]
           /\ efetch_response' = response
           /\ formatted_articles' = formatted
           /\ processed_ids' = processed_ids_after(processed_ids,
                                    new_pmids_to_fetch_details, formatted)
           /\ ledger_file' \in save_processed_ids(
                    processed_ids_after(processed_ids, new_pmids_to_fetch_details,
                                        formatted))
    /\ fetch_pc' = "returned"
    /\ UNCHANGED <<query_term, articles_per_query, all_found_pmids,
                   new_pmids_to_fetch_details, esearch_request, esearch_response,
                   hist_vars, main_vars, aux_vars>>

----------------------------------------------------------------------------
(* Callers *)

\* the query terms a direct caller passes: a keyword and the sentinel
TermChoices == {QUERY[5], GET_LATEST_PUBMED_FLAG}

\* a direct call fetch_entrez_articles_for_news_update(q, n), n >= 1, made
\* when no call is in progress. The history variables take in what the call
\* before this one returned and skipped.
TestCall(q, n) ==
    /\ main_pc = "idle"
    /\ Begin(q, n)
    /\ returned_ids' = returned_ids \cup ids_added(formatted_articles)
    /\ rejected_ids' = rejected_ids
            \cup (ids_skipped(raw_articles_details) \cap Range(efetch_request.ids))
    /\ UNCHANGED <<first_run, main_vars>>

Next ==
    \/ \E q \in TermChoices, n \in 1..MaxN : TestCall(q, n)
    \/ \E response \in EsearchResponses : FetchSearch(response)
    \/ \E response \in EfetchResponses : FetchDetail(response)

Spec == Init /\ [][Next]_vars

----------------------------------------------------------------------------
(* The procedure run twice in succession against an unchanged upstream *)

\* every candidate of the search was in the ledger when the call began or is
\* among the records the call returned
all_candidates_seen ==
    \A i \in 1..Len(all_found_pmids) :
        \/ all_found_pmids[i] \in load_processed_ids(ledger_at_call)
        \/ all_found_pmids[i] \in ids_added(formatted_articles)

\* the call asked efetch.fcgi and the request or the parse failed
detail_failed ==
    efetch_request.sent /\ efetch_response.kind \in {"RequestException", "ParseError"}

\* a call that is not the repetition of the one before it
FirstCall(q, n) ==
    /\ main_pc = "idle"
    /\ Begin(q, n)
    /\ first_run' = NoRun
    /\ UNCHANGED <<returned_ids, rejected_ids, main_vars>>

\* the same call made again right after it returned; FetchSearch then answers
\* as it did the first time
CallAgain ==
    /\ main_pc = "idle"
    /\ fetch_pc = "returned"
    /\ ~first_run.repeat
    /\ Begin(query_term, articles_per_query)
    /\ first_run' = [repeat |-> TRUE, esearch_response |-> esearch_response,
                     efetch_request |-> efetch_request,
                     all_returned |-> all_candidates_seen,
                     detail_failed |-> detail_failed]
    /\ UNCHANGED <<returned_ids, rejected_ids, main_vars>>

NextTwice ==
    \/ \E q \in TermChoices, n \in 1..MaxN : FirstCall(q, n)
    \/ CallAgain
    \/ \E response \in EsearchResponses : FetchSearch(response)
    \/ \E response \in EfetchResponses : FetchDetail(response)

SpecTwice == Init /\ [][NextTwice]_vars

----------------------------------------------------------------------------
(* main *)

\* the EFetch answers of a well-behaved upstream to one request: a failure,
\* or a document with at most one element per identifier asked for, in order
RECURSIVE WellBehavedDocs(_)
WellBehavedDocs(ids) ==
    IF ids = <<>> THEN {<<>>}
    ELSE LET rest == WellBehavedDocs(Tail(ids)) IN
         rest \cup {<<[PMID |-> [present |-> TRUE, text |-> Head(ids)],
                       AbstractText |-> a]>> \o d :
                        a \in AbstractTextChoices, d \in rest}

WellBehavedEfetchResponses(ids) ==
    {[kind |-> k, articles |-> <<>>] : k \in {"RequestException", "ParseError"}}
    \cup {[kind |-> "xml", articles |-> a] : a \in WellBehavedDocs(ids)}

\* lines 352-355: a new run of the script
MainStart ==
    /\ main_pc \in {"idle", "crashed"}
    /\ fetch_pc \in {"idle", "returned", "raised"}
    /\ main_pc' = "loop"
    /\ query_idx' = 1
    /\ articles_collection' = <<>>
    /\ UNCHANGED <<ledger_file, fetch_vars, hist_vars, enrich_idx, news_file, audios,
                   aux_vars>>

\* lines 356-367: the next query term, fetched with articles_per_query=1
MainCall ==
    /\ main_pc = "loop"
    /\ query_idx <= Len(QUERY)
    /\ Begin(QUERY[query_idx], 1)
    /\ main_pc' = "fetching"
    /\ UNCHANGED <<first_run, returned_ids, rejected_ids, query_idx,
                   articles_collection, enrich_idx, news_file, audios>>

\* lines 367-374: the call returned; its records are collected
MainCollect ==
    /\ main_pc = "fetching"
    /\ fetch_pc = "returned"
    /\ articles_collection' = articles_collection \o formatted_articles
    /\ query_idx' = query_idx + 1
    /\ main_pc' = "loop"
    /\ UNCHANGED <<ledger_file, fetch_vars, hist_vars, enrich_idx, news_file, audios,
                   aux_vars>>

\* line 367: the call raised; nothing in main catches it and the run ends
MainRaised ==
    /\ main_pc = "fetching"
    /\ fetch_pc = "raised"
    /\ main_pc' = "crashed"
    /\ UNCHANGED <<ledger_file, fetch_vars, hist_vars, query_idx,
                   articles_collection, enrich_idx, news_file, audios, aux_vars>>

\* lines 376-380: the loop is over; return if nothing was collected
MainLoopEnd ==
    /\ main_pc = "loop"
    /\ query_idx > Len(QUERY)
    /\ main_pc' = IF articles_collection = <<>> THEN "idle" ELSE "enrich"
    /\ enrich_idx' = 1
    /\ UNCHANGED <<ledger_file, fetch_vars, hist_vars, query_idx,
                   articles_collection, news_file, audios, aux_vars>>

\* lines 382-409 with a record whose translation failed left out of news.jsonl
MainEnrichTranslatedOnly(translated, spoken) ==
    /\ main_pc = "enrich"
    /\ LET article_detail == articles_collection[enrich_idx] IN
        /\ news_file' = IF translated
                         THEN Append(news_file,
                                [query |-> article_detail.query, id |-> article_detail.id,
                                 translated |-> translated])
                         ELSE news_file
        /\ audios' = IF spoken THEN audios \cup {article_detail.id} ELSE audios
    /\ enrich_idx' = enrich_idx + 1
    /\ main_pc' = IF enrich_idx = Len(articles_collection) THEN "idle" ELSE "enrich"
    /\ UNCHANGED <<ledger_file, fetch_vars, hist_vars, query_idx, articles_collection,
                   aux_vars>>

\* lines 382-409: one record translated (or given the placeholder texts of
\* lines 336-341), spoken (or not, line 349) and appended to news.jsonl
MainEnrich(translated, spoken) ==
    /\ main_pc = "enrich"
    /\ LET article_detail == articles_collection[enrich_idx] IN
        /\ news_file' = Append(news_file,
                [query |-> article_detail.query, id |-> article_detail.id,
                 translated |-> translated])
        /\ audios' = IF spoken THEN audios \cup {article_detail.id} ELSE audios
    /\ enrich_idx' = enrich_idx + 1
    /\ main_pc' = IF enrich_idx = Len(articles_collection) THEN "idle" ELSE "enrich"
    /\ UNCHANGED <<ledger_file, fetch_vars, hist_vars, query_idx, articles_collection,
                   aux_vars>>

NextMain ==
    \/ MainStart
    \/ MainCall
    \/ \E response \in EsearchResponses : FetchSearch(response)
    \/ \E response \in WellBehavedEfetchResponses(new_pmids_to_fetch_details) :
            FetchDetail(response)
    \/ MainCollect
    \/ MainRaised
    \/ MainLoopEnd
    \/ \E translated, spoken \in BOOLEAN : MainEnrich(translated, spoken)

SpecMain == Init /\ [][NextMain]_vars

----------------------------------------------------------------------------
(* The procedure step by step, in a process that can be killed *)

\* lines 260-296: fetch_pubmed_articles_details and the validation loop
DetailLoop(response) ==
    /\ fetch_pc = "detail"
    /\ LET details == fetch_pubmed_articles_details(new_pmids_to_fetch_details, response)
           formatted == format_articles(query_term, details)
       IN  /\ efetch_request' = [sent |-> TRUE, term |-> "", retmax |-> 0,
                                 ids |-> new_pmids_to_fetch_details]
           /\ efetch_response' = response
           /\ formatted_articles' = formatted
           /\ processed_ids' = processed_ids_after(processed_ids,
                                    new_pmids_to_fetch_details, formatted)
    /\ fetch_pc' = "save"
    /\ UNCHANGED <<ledger_file, query_term, articles_per_query, all_found_pmids,
                   new_pmids_to_fetch_details, esearch_request, esearch_response,
                   hist_vars, main_vars, aux_vars>>

\* lines 298 and 57: open(PROCESSED_IDS_PATH, "w") creates or truncates the file
SaveOpen ==
    /\ fetch_pc = "save"
    /\ ledger_file' = open_w(ledger_file)
    /\ fetch_pc' = "write"
    /\ UNCHANGED <<query_term, articles_per_query, processed_ids, all_found_pmids,
                   new_pmids_to_fetch_details, formatted_articles, esearch_request,
                   esearch_response, efetch_request, efetch_response, hist_vars,
                   main_vars, aux_vars>>

\* line 58 and the end of the with block: the joined text reaches the file,
\* then lines 299-300 return
SaveWrite ==
    /\ fetch_pc = "write"
    /\ ledger_file' \in {write(ledger_file, join(<<"\n">>, o)) : o \in Orderings(processed_ids)}
    /\ fetch_pc' = "returned"
    /\ UNCHANGED <<query_term, articles_per_query, processed_ids, all_found_pmids,
                   new_pmids_to_fetch_details, formatted_articles, esearch_request,
                   esearch_response, efetch_request, efetch_response, hist_vars,
                   main_vars, aux_vars>>

\* the process is killed while the procedure runs; the file stays as it is
Kill ==
    /\ fetch_pc \in {"search", "detail", "save", "write"}
    /\ fetch_pc' = "killed"
    /\ UNCHANGED <<ledger_file, query_term, articles_per_query, processed_ids,
                   all_found_pmids, new_pmids_to_fetch_details, formatted_articles,
                   esearch_request, esearch_response, efetch_request, efetch_response,
                   hist_vars, main_vars, aux_vars>>

NextCrash ==
    \/ \E q \in TermChoices, n \in 1..MaxN : FirstCall(q, n)
    \/ \E response \in EsearchResponses : FetchSearch(response)
    \/ \E response \in WellBehavedEfetchResponses(new_pmids_to_fetch_details) :
            DetailLoop(response)
    \/ SaveOpen
    \/ SaveWrite
    \/ Kill

SpecCrash == Init /\ [][NextCrash]_vars

----------------------------------------------------------------------------
(* Two calls of the procedure at once on one ledger file. Each call is the  *)
(* code of lines 232-300 on its own locals; a save (lines 57-58) is taken as *)
(* one step.                                                                 *)

\* the ledger files a run can start with
InitialLedgers == {NoFile} \cup UNION {save_processed_ids(S) : S \in SUBSET PMIDS}

\* the ESearch answers that list each identifier at most once
DistinctIdlistResponses ==
    {[kind |-> "json", shape |-> "idlist", idlist |-> l] :
        l \in {m \in SeqsUpTo(PMIDS, Cardinality(PMIDS)) :
                    \A i, j \in 1..Len(m) : m[i] = m[j] => i = j}}

InitConcurrent ==
    /\ ledger_file \in InitialLedgers
    /\ InitLocals
    /\ pubmed_article = NoArticle
    /\ parsed_article = NoInfo
    /\ peer = NoPeer
    /\ upstream = NoUpstream

\* the first call begins
ConcurrentCall(q, n) ==
    /\ fetch_pc = "idle"
    /\ FirstCall(q, n)

\* lines 232-240 in the second call
PeerBegin(q, n) ==
    /\ peer.pc = "idle"
    /\ peer' = [peer EXCEPT !.pc = "search", !.query_term = q,
                            !.articles_per_query = n,
                            !.processed_ids = load_processed_ids(ledger_file),
                            !.loaded = load_processed_ids(ledger_file)]
    /\ UNCHANGED <<ledger_file, fetch_vars, hist_vars, main_vars, parse_vars, upstream>>

\* lines 242-258 in the second call
PeerSearch(response) ==
    /\ peer.pc = "search"
    /\ LET found == search_pubmed(peer.query_term,
                                  pmids_to_search(peer.articles_per_query), response)
           batch == filter_new_pmids(found.pmids, peer.processed_ids,
                                     peer.articles_per_query, <<>>)
       IN  peer' = [peer EXCEPT
                !.all_found_pmids = found.pmids,
                !.new_pmids_to_fetch_details = IF found.raised THEN <<>> ELSE batch,
                !.pc = IF found.raised THEN "raised"
                       ELSE IF found.pmids = <<>> \/ batch = <<>> THEN "returned"
                       ELSE "detail"]
    /\ UNCHANGED <<ledger_file, fetch_vars, hist_vars, main_vars, parse_vars, upstream>>

\* lines 260-300 in the second call
PeerDetail(response) ==
    /\ peer.pc = "detail"
    /\ LET details == fetch_pubmed_articles_details(peer.new_pmids_to_fetch_details,
                                                    response)
           formatted == format_articles(peer.query_term, details)
           ids == processed_ids_after(peer.processed_ids,
                                      peer.new_pmids_to_fetch_details, formatted)
       IN  /\ peer' = [peer EXCEPT !.formatted_articles = formatted,
                                   !.processed_ids = ids,
                                   !.asked = TRUE,
                                   !.pc = "returned"]
           /\ ledger_file' \in {write(open_w(ledger_file), join(<<"\n">>, o)) :
                                    o \in Orderings(ids)}
    /\ UNCHANGED <<fetch_vars, hist_vars, main_vars, parse_vars, upstream>>

NextConcurrent ==
    \/ \E q \in TermChoices, n \in 1..MaxN : ConcurrentCall(q, n)
    \/ \E response \in DistinctIdlistResponses : FetchSearch(response)
    \/ \E response \in WellBehavedEfetchResponses(new_pmids_to_fetch_details) :
            FetchDetail(response)
    \/ \E q \in TermChoices, n \in 1..MaxN : PeerBegin(q, n)
    \/ \E response \in DistinctIdlistResponses : PeerSearch(response)
    \/ \E response \in WellBehavedEfetchResponses(peer.new_pmids_to_fetch_details) :
            PeerDetail(response)

SpecConcurrent == InitConcurrent /\ [][NextConcurrent]_vars

----------------------------------------------------------------------------
(* The procedure repeated with articles_per_query = 1 against an upstream   *)
(* that does not change and does not fail                                   *)

InitRepeat ==
    /\ InitProgram
    /\ pubmed_article = NoArticle
    /\ parsed_article = NoInfo
    /\ peer = NoPeer
    /\ upstream \in Upstreams

\* what esearch.fcgi answers
UpstreamSearch == [kind |-> "json", shape |-> "idlist", idlist |-> upstream.idlist]

\* what efetch.fcgi answers when asked for ids: one element per identifier
UpstreamDetail(ids) ==
    [kind |-> "xml",
     articles |-> [i \in 1..Len(ids) |->
                    [PMID |-> [present |-> TRUE, text |-> ids[i]],
                     AbstractText |-> upstream.abstracts[ids[i]]]]]

\* the next run of the procedure, as main makes it (line 367)
RepeatCall == TestCall(upstream.query_term, 1)

RepeatSearch == FetchSearch(UpstreamSearch)

RepeatDetail == FetchDetail(UpstreamDetail(new_pmids_to_fetch_details))

NextRepeat == RepeatCall \/ RepeatSearch \/ RepeatDetail

\* runs keep being made and each run goes on to its end
SpecRepeat == InitRepeat /\ [][NextRepeat]_vars /\ WF_vars(NextRepeat)

----------------------------------------------------------------------------
(* The parsing loop of fetch_pubmed_articles_details on one element *)

InitParse ==
    /\ InitProgram
    /\ pubmed_article \in ParsedElements
    /\ parsed_article = NoInfo
    /\ peer = NoPeer
    /\ upstream = NoUpstream

\* lines 147-220: one turn of the loop over the PubmedArticle elements
ParseArticle ==
    /\ ~parsed_article.parsed
    /\ parsed_article' = authors_and_date(pubmed_article)
    /\ UNCHANGED <<ledger_file, fetch_vars, hist_vars, main_vars, pubmed_article,
                   peer, upstream>>

NextParse == ParseArticle

SpecParse == InitParse /\ [][NextParse]_vars

----------------------------------------------------------------------------
(* Properties *)

Returned == fetch_pc = "returned"

\* length of a text without its leading and trailing whitespace
TrimmedLen(text) ==
    IF \A i \in 1..Len(text) : text[i] \in Whitespace THEN 0
    ELSE LET first == CHOOSE i \in 1..Len(text) :
                        /\ text[i] \notin Whitespace
                        /\ \A j \in 1..(i - 1) : text[j] \in Whitespace
             last == CHOOSE i \in 1..Len(text) :
                        /\ text[i] \notin Whitespace
                        /\ \A j \in (i + 1)..Len(text) : text[j] \in Whitespace
         IN  last - first + 1

\* the positions of the details that carry an identifier and an abstract of
\* at least 50 characters once trimmed
Acceptable(details) ==
    {j \in 1..Len(details) :
        /\ details[j].has_pmid
        /\ details[j].pmid # <<>>
        /\ TrimmedLen(details[j].abstract) >= MIN_ABSTRACT_LEN}

\* the positions of the parsed details that were asked for and that the
\* validation gate rejects
Rejected ==
    {j \in 1..Len(raw_articles_details) :
        /\ raw_articles_details[j].has_pmid
        /\ raw_articles_details[j].pmid \in Range(efetch_request.ids)
        /\ TrimmedLen(raw_articles_details[j].abstract) < MIN_ABSTRACT_LEN}

\* the search of the current call came back empty: the request failed, the
\* body could not be decoded, or the payload holds no identifier
EmptySearch ==
    /\ esearch_request.sent
    /\ \/ esearch_response.kind \in {"RequestException", "JSONDecodeError"}
       \/ /\ esearch_response.kind = "json"
          /\ esearch_response.shape \in {"no_esearchresult", "idlist"}
          /\ esearch_response.idlist = <<>>

\* the document of the current call holds only details of identifiers that
\* were asked for, each at most once
AnswersTheRequest ==
    /\ \A j \in 1..Len(raw_articles_details) :
            /\ raw_articles_details[j].has_pmid
            /\ raw_articles_details[j].pmid \in Range(efetch_request.ids)
    /\ \A j, k \in 1..Len(raw_articles_details) :
            raw_articles_details[j].pmid = raw_articles_details[k].pmid => j = k

\* C1 as stated: the procedure run a second time for the same query term and
\* target count, against a search that answers as before and a detail
\* adapter that answers what it is asked (and is not asked the same batch
\* twice, so cannot have answered differently), returns zero records.
C1_SecondRunReturnsNothing ==
    (/\ Returned
     /\ first_run.repeat
     /\ AnswersTheRequest
     /\ ~(/\ first_run.efetch_request.sent
          /\ efetch_request.sent
          /\ first_run.efetch_request.ids = efetch_request.ids))
    => formatted_articles = <<>>

\* C1 as amended: when every candidate of the search was in the ledger at the
\* start of the first run or was returned as a record by the first run, the
\* second run returns zero records and does not ask the detail adapter.
C1_SecondRunReturnsNothingWhenAllSeen ==
    (Returned /\ first_run.repeat /\ first_run.all_returned)
    => (formatted_articles = <<>> /\ ~efetch_request.sent)

\* a second run has returned after a first run that fetched details and
\* returned every unseen candidate
C1_Witness ==
    /\ Returned
    /\ first_run.repeat
    /\ first_run.all_returned
    /\ first_run.efetch_request.sent
    /\ Len(all_found_pmids) = MaxCands

\* C2: every identifier occurs in at most one record returned by the
\* procedure, within one call and across calls that share the ledger file.
C2_AtMostOnceAcceptance ==
    Returned =>
        /\ \A i, j \in 1..Len(formatted_articles) :
                formatted_articles[i].id = formatted_articles[j].id => i = j
        /\ \A i \in 1..Len(formatted_articles) :
                formatted_articles[i].id \notin returned_ids

\* C3: when the validation gate rejects a detail (of an identifier that was
\* asked for), the ledger persisted when the procedure returns contains the
\* rejected detail's identifier.
C3_RejectedIsInLedger ==
    Returned =>
        \A j \in Rejected :
            raw_articles_details[j].pmid \in load_processed_ids(ledger_file)

\* C4: no returned record has the no-abstract sentinel as its abstract or an
\* abstract shorter than 50 characters once trimmed, and the returned records
\* are exactly the details that carry an identifier and an abstract of 50 or
\* more characters once trimmed, in order.
C4_ValidationGate ==
    Returned =>
        /\ \A i \in 1..Len(formatted_articles) :
            /\ formatted_articles[i].summary # NO_ABSTRACT
            /\ TrimmedLen(formatted_articles[i].summary) >= MIN_ABSTRACT_LEN
        /\ LET details == raw_articles_details
               acceptable == Acceptable(details)
           IN  /\ Len(formatted_articles) = Cardinality(acceptable)
               /\ \A j \in acceptable :
                    LET i == Cardinality({k \in acceptable : k <= j}) IN
                    /\ formatted_articles[i].id = details[j].pmid
                    /\ formatted_articles[i].summary = details[j].abstract

\* a call has returned a record whose abstract has exactly 50 characters and
\* skipped a detail whose abstract has 50 characters, 49 once trimmed
C4_Witness ==
    /\ Returned
    /\ \E i \in 1..Len(formatted_articles) :
            Len(formatted_articles[i].summary) = MIN_ABSTRACT_LEN
    /\ \E j \in Rejected :
            /\ Len(raw_articles_details[j].abstract) = MIN_ABSTRACT_LEN
            /\ TrimmedLen(raw_articles_details[j].abstract) = MIN_ABSTRACT_LEN - 1

\* C5: an identifier that was asked for and whose detail the validation gate
\* rejected in an earlier call is never again part of a batch sent to the
\* detail adapter.
C5_RejectedNeverFetchedAgain ==
    efetch_request.sent =>
        \A i \in 1..Len(efetch_request.ids) : efetch_request.ids[i] \notin rejected_ids

\* C6: whenever the search comes back empty (no candidates upstream, or a
\* failed request), the procedure returns an empty result, the detail adapter
\* is not called and the ledger file is as it was when the call began.
C6_EmptyCandidateShortCircuit ==
    EmptySearch =>
        /\ Returned
        /\ formatted_articles = <<>>
        /\ ~efetch_request.sent
        /\ ledger_file = ledger_at_call

\* a call whose search request failed has returned, with a ledger file on disk
C6_Witness ==
    /\ EmptySearch
    /\ esearch_response.kind = "RequestException"
    /\ Returned
    /\ load_processed_ids(ledger_file) # {}

\* C7: the list the procedure returns has at most articles_per_query records.
C7_ResultBound ==
    Returned => Len(formatted_articles) <= articles_per_query

\* C8: no exception leaves the procedure, whatever way an adapter call
\* fails, so main is never ended before it has run every query term.
C8_QueryTermIsolation ==
    /\ fetch_pc # "raised"
    /\ main_pc # "crashed"

\* C9: the set read by load_processed_ids never loses an identifier: every
\* step leaves in the ledger file each identifier that was in it.
C9_LedgerMonotonic ==
    [][load_processed_ids(ledger_file) \subseteq load_processed_ids(ledger_file')]_vars

\* a call has rewritten a ledger file that held an identifier and added one
C9_Witness ==
    /\ Returned
    /\ efetch_request.sent
    /\ load_processed_ids(ledger_at_call) # {}
    /\ load_processed_ids(ledger_at_call) # load_processed_ids(ledger_file)

\* C10: for the sentinel query term the term sent to ESearch is the broad
\* expression and every returned record is labelled "Latest PubMed Articles",
\* never the sentinel; for any other term both are the term itself.
C10_SentinelQuery ==
    /\ esearch_request.sent =>
        /\ esearch_request.term # GET_LATEST_PUBMED_FLAG
        /\ esearch_request.term =
            IF query_term = GET_LATEST_PUBMED_FLAG THEN "pubmed[sb]" ELSE query_term
    /\ \A i \in 1..Len(formatted_articles) :
        /\ formatted_articles[i].query # GET_LATEST_PUBMED_FLAG
        /\ formatted_articles[i].query =
            IF query_term = GET_LATEST_PUBMED_FLAG THEN "Latest PubMed Articles"
            ELSE query_term

\* a call for the sentinel query term has returned a record
C10_Witness ==
    /\ Returned
    /\ query_term = GET_LATEST_PUBMED_FLAG
    /\ esearch_request.sent
    /\ formatted_articles # <<>>

----------------------------------------------------------------------------
(* Authors and publication date *)

\* how much of a date the PubDate element gives: 0 nothing, 1 a year,
\* 2 a year and a month, 3 a year, a month and a day
PrimaryPrecision(node) ==
    IF ~node.present \/ node.Year = <<>> THEN 0
    ELSE IF node.Month = <<>> THEN 1
    ELSE IF isdigit(node.Day) THEN 3
    ELSE 2

\* the same for a PubMedPubDate element, whose parts count when numeric
SecondaryPrecision(node) ==
    IF ~isdigit(node.Year) THEN 0
    ELSE IF ~isdigit(node.Month) THEN 1
    ELSE IF ~isdigit(node.Day) THEN 2
    ELSE 3

\* the History entry to consult: the first with status pubmed, else the first
\* with status entrez, else the first
PreferredEntry(history) ==
    LET first(S) == CHOOSE i \in S : \A j \in S : i <= j
        pubmed == {i \in 1..Len(history) : history[i].PubStatus = "pubmed"}
        entrez == {i \in 1..Len(history) : history[i].PubStatus = "entrez"}
    IN  IF pubmed # {} THEN history[first(pubmed)]
        ELSE IF entrez # {} THEN history[first(entrez)]
        ELSE history[1]

\* C11: when the PubDate element gives no date or a date without a day, the
\* published date is the date of the preferred History entry if that entry
\* is strictly more precise than the PubDate element, and the date read from
\* the PubDate element otherwise.
C11_DateFallback ==
    (parsed_article.parsed /\ PrimaryPrecision(pubmed_article.PubDate) < 3) =>
        LET primary == journal_pub_date(pubmed_article.PubDate)
            history == pubmed_article.History
        IN  IF history = <<>> THEN parsed_article.published_date = primary
            ELSE IF SecondaryPrecision(PreferredEntry(history))
                        > PrimaryPrecision(pubmed_article.PubDate)
                 THEN parsed_article.published_date
                        = current_date_str(PreferredEntry(history))
                 ELSE parsed_article.published_date = primary

\* an Author element with a surname, a given name or initials
Resolves(author_node) ==
    author_node.LastName # <<>> \/ author_node.ForeName # <<>>
        \/ author_node.Initials # <<>>

\* the surname followed by the given name, or by the initials when there is
\* no given name, with one blank between the two
DisplayName(author_node) ==
    LET given == IF author_node.ForeName # <<>> THEN author_node.ForeName
                 ELSE author_node.Initials
    IN  IF author_node.LastName = <<>> THEN given
        ELSE IF given = <<>> THEN author_node.LastName
        ELSE author_node.LastName \o <<" ">> \o given

\* C12: the authors of a parsed article are the display names of the Author
\* elements that have a surname, a given name or initials, in document order,
\* and the one sentinel exactly when there is no such element.
C12_AuthorFallback ==
    parsed_article.parsed =>
        LET resolved == SelectSeq(pubmed_article.AuthorList, Resolves)
        IN  IF resolved = <<>> THEN parsed_article.authors = <<NO_AUTHORS>>
            ELSE /\ parsed_article.authors
                        = [i \in 1..Len(resolved) |-> DisplayName(resolved[i])]
                 /\ NO_AUTHORS \notin Range(parsed_article.authors)

\* surname Lee with initials J and no given name, after an element with none
\* of the three: the authors are "Lee J" alone
C12_Witness ==
    /\ parsed_article.parsed
    /\ pubmed_article.AuthorList
        = <<[LastName |-> <<>>, ForeName |-> <<>>, Initials |-> <<>>],
            [LastName |-> <<"L", "e", "e">>, ForeName |-> <<>>, Initials |-> <<"J">>]>>
    /\ parsed_article.authors = << <<"L", "e", "e", " ", "J">> >>

----------------------------------------------------------------------------
(* The candidate filter and the ledger effect of one call *)

\* the set load_processed_ids returned to the current call
LoadedLedger == load_processed_ids(ledger_at_call)

\* the candidates of the search that are not in the loaded ledger, in order
Unseen == SelectSeq(all_found_pmids, LAMBDA p : p \notin LoadedLedger)

\* the search of the current call has been answered without an exception
Searched == fetch_pc \in {"detail", "returned"}

\* C13: the batch given to the detail adapter is the first min(N, k) of the k
\* candidates not in the loaded ledger, in search order; with k = 0 the
\* detail adapter is not called and nothing is returned.
C13_CandidateFilter ==
    Searched =>
        LET k == Len(Unseen)
            n == IF articles_per_query < k THEN articles_per_query ELSE k
        IN  /\ new_pmids_to_fetch_details = SubSeq(Unseen, 1, n)
            /\ efetch_request.sent => efetch_request.ids = SubSeq(Unseen, 1, n)
            /\ k = 0 => fetch_pc = "returned" /\ ~efetch_request.sent
                            /\ formatted_articles = <<>>
            /\ k > 0 => fetch_pc = "detail" \/ efetch_request.sent

\* two candidates of which the first is in the ledger, N = 2: the batch is
\* the second candidate alone
C13_Witness ==
    /\ fetch_pc = "detail"
    /\ articles_per_query = 2
    /\ all_found_pmids = << <<"1">>, <<"2">> >>
    /\ LoadedLedger = {<<"1">>}
    /\ new_pmids_to_fetch_details = << <<"2">> >>

\* C14: when a call returns after the detail phase, the ledger file holds
\* the set loaded at its start and the identifiers of the records it returns,
\* and nothing else.
C14_LedgerEffect ==
    (Returned /\ efetch_request.sent) =>
        load_processed_ids(ledger_file)
            = LoadedLedger \cup {formatted_articles[i].id : i \in 1..Len(formatted_articles)}

\* two unseen candidates and N = 1: the detail adapter is asked for the first,
\* one record is returned and the ledger holds the first identifier only
C14_Witness ==
    /\ Returned
    /\ articles_per_query = 1
    /\ all_found_pmids = << <<"1">>, <<"2">> >>
    /\ efetch_request.ids = << <<"1">> >>
    /\ LoadedLedger = {}
    /\ Len(formatted_articles) = 1
    /\ formatted_articles[1].id = <<"1">>
    /\ load_processed_ids(ledger_file) = {<<"1">>}

\* C15: a call whose detail request fails returns nothing and leaves in the
\* ledger file the set it loaded; the same call made again, with the search
\* answering the same candidates, selects the same batch again.
C15_DetailBatchFailure ==
    /\ (Returned /\ detail_failed) =>
            /\ formatted_articles = <<>>
            /\ load_processed_ids(ledger_file) = LoadedLedger
            /\ Range(efetch_request.ids) \cap load_processed_ids(ledger_file) = {}
    /\ (first_run.repeat /\ first_run.detail_failed /\ Searched) =>
            /\ new_pmids_to_fetch_details = first_run.efetch_request.ids
            /\ fetch_pc = "detail" \/ efetch_request.sent

\* the call after a failed detail request for two identifiers is about to
\* ask for the same two
C15_Witness ==
    /\ first_run.repeat
    /\ first_run.detail_failed
    /\ first_run.efetch_request.ids = << <<"2">>, <<"1">> >>
    /\ fetch_pc = "detail"
    /\ new_pmids_to_fetch_details = << <<"2">>, <<"1">> >>

----------------------------------------------------------------------------
(* A killed process *)

\* C16: after the process is killed during a call, the ledger file still
\* holds every identifier it held when that call began, that is, everything
\* the saves completed before the call had written.
C16_CrashDurability ==
    fetch_pc = "killed" => LoadedLedger \subseteq load_processed_ids(ledger_file)

----------------------------------------------------------------------------
(* Two calls at once *)

\* the identifiers of the records in a result
IdsOf(articles) == {articles[i].id : i \in 1..Len(articles)}

\* both calls have returned after their detail phase and save
BothSaved == Returned /\ efetch_request.sent /\ peer.pc = "returned" /\ peer.asked

\* C17: two calls interleaved on one ledger file are not kept apart: once
\* both have saved, the file holds the set of one call alone (what that call
\* loaded and the identifiers of its own records), so an identifier that
\* only the other call accepted and saved is gone; and an identifier in the
\* ledger one call loaded is the only thing that call refuses, so both can
\* return the same identifier.
C17_LastSaveWins ==
    BothSaved =>
        /\ \/ load_processed_ids(ledger_file) = LoadedLedger \cup IdsOf(formatted_articles)
           \/ load_processed_ids(ledger_file)
                    = peer.loaded \cup IdsOf(peer.formatted_articles)
        /\ IdsOf(formatted_articles) \cap LoadedLedger = {}
        /\ IdsOf(peer.formatted_articles) \cap peer.loaded = {}

\* both calls loaded the empty ledger; the first returned records for 1 and
\* 2 and saved them, the second returned a record for 1 and saved last: both
\* returned 1, and 2 is not in the ledger file
C17_Witness ==
    /\ BothSaved
    /\ LoadedLedger = {}
    /\ peer.loaded = {}
    /\ IdsOf(formatted_articles) = {<<"1">>, <<"2">>}
    /\ IdsOf(peer.formatted_articles) = {<<"1">>}
    /\ load_processed_ids(ledger_file) = {<<"1">>}

----------------------------------------------------------------------------
(* main: collect, then log *)

\* a run of main has gone through its second loop
RunCompleted == main_pc = "idle" /\ query_idx > Len(QUERY) /\ articles_collection # <<>>

\* the line of news.jsonl is the one written for the record
LineOf(line, article_detail) ==
    line.id = article_detail.id /\ line.query = article_detail.query

\* the last k lines of news.jsonl are those of the first k collected records
LastLinesAreRecords(k) ==
    /\ Len(news_file) >= k
    /\ \A i \in 1..k :
            LineOf(news_file[Len(news_file) - k + i], articles_collection[i])

C18_States ==
    /\ main_pc = "enrich" =>
            /\ query_idx = Len(QUERY) + 1
            /\ fetch_pc = "returned"
            /\ enrich_idx \in 1..Len(articles_collection)
            /\ LastLinesAreRecords(enrich_idx - 1)
    /\ RunCompleted =>
            /\ enrich_idx = Len(articles_collection) + 1
            /\ LastLinesAreRecords(Len(articles_collection))

C18_Steps ==
    /\ main_pc' = "fetching" /\ main_pc # "fetching" =>
            /\ query_term' = QUERY[query_idx]
            /\ fetch_pc' = "search"
    /\ query_idx' = query_idx + 1 =>
            /\ fetch_pc = "returned"
            /\ query_term = QUERY[query_idx]
            /\ articles_collection' = articles_collection \o formatted_articles
            /\ news_file' = news_file
    /\ news_file' # news_file =>
            /\ main_pc = "enrich"
            /\ Len(news_file') = Len(news_file) + 1
            /\ SubSeq(news_file', 1, Len(news_file)) = news_file
            /\ LineOf(news_file'[Len(news_file')], articles_collection[enrich_idx])
    /\ main_pc = "enrich" =>
            /\ news_file' # news_file
            /\ enrich_idx' = enrich_idx + 1
            /\ ledger_file' = ledger_file
            /\ articles_collection' = articles_collection

\* C18: in main every query term is fetched, in the order of QUERY and each
\* call to its return, before the first record is enriched or logged; the
\* second loop then appends one line to news.jsonl per collected record, in
\* collection order, whether or not the translation and the audio succeed,
\* and leaves the ledger file as the calls left it.
C18_CollectThenLog == []C18_States /\ [][C18_Steps]_vars

\* a completed run that collected two records and logged both in order, the
\* first with a failed translation and no audio
C18_Witness ==
    /\ RunCompleted
    /\ Len(articles_collection) = 2
    /\ Len(news_file) = 2
    /\ LineOf(news_file[1], articles_collection[1])
    /\ ~news_file[1].translated
    /\ articles_collection[1].id \notin audios
    /\ LineOf(news_file[2], articles_collection[2])
    /\ news_file[2].translated

----------------------------------------------------------------------------
(* Repeated runs *)

\* the abstract the upstream serves for the identifier passes the gate
PassesGate(id) ==
    TrimmedLen(abstract_of(upstream.abstracts[id])) >= MIN_ABSTRACT_LEN

\* C19: with an unchanging upstream and N = 1, repeated runs eventually
\* return a record for every candidate whose abstract passes the validation
\* gate; a candidate that fails the gate does not hold back those after it.
C19_Progress ==
    <>(\A i \in 1..Len(upstream.idlist) :
            PassesGate(upstream.idlist[i]) =>
                upstream.idlist[i] \in returned_ids \cup IdsOf(formatted_articles))

====
